---- MODULE Spec2Model ----
(***************************************************************************)
(* sjtu::priority_queue<T, Compare> (src/src/priority_queue.hpp): a        *)
(* leftist heap with meld, push, pop, merge, deep copy and destruction.    *)
(* T is int with Compare = std::less<int>; the comparator may throw on any *)
(* of its invocations, and operator new may throw std::bad_alloc.          *)
(***************************************************************************)
EXTENDS Integers, Sequences, FiniteSets, Bags, TLC

\* ------------------------------------------------------------------ bounds
MaxNodes == 5    \* node cells of the free store
SmallStore == 4  \* cells available when copies and destruction are exercised
MaxVal == 2      \* pushed values are 1..MaxVal
NQueues == 2     \* priority_queue objects (handles)
MaxThrow == 2    \* the comparator / allocation call of an operation that may throw
MaxRun == 5      \* elements of one push-then-pop run
MaxSortVal == 3  \* a push-then-pop run pushes values 1..MaxSortVal

NULL == 0
Nodes == 1..MaxNodes
Vals == 1..MaxVal
Queues == 1..NQueues
Handles == 1..(NQueues + 1)   \* the queues and one more object, used by TrioSpec
SortVals == 1..MaxSortVal
AllVals == Vals \cup SortVals

VARIABLES heap, alive, cap, live, root, cnt, last, run

vars == <<heap, alive, cap, live, root, cnt, last, run>>

\* ------------------------------------------------------------------- nodes
\* Storage that holds no Node (never allocated, or deleted).
Blank == [val |-> 0, left |-> NULL, right |-> NULL, dist |-> 0]

\* Node(const T &v)
Node(v) == [val |-> v, left |-> NULL, right |-> NULL, dist |-> 1]

\* The program state as one value: heap cells, allocated cells, the number
\* of cells the free store can supply, and the root/cnt members of every
\* constructed queue.  frees lists, in order, the cells the call in progress
\* has passed to operator delete; it is empty when a call starts.
Cur == [heap |-> heap, alive |-> alive, cap |-> cap, live |-> live, root |-> root,
        cnt |-> cnt, frees |-> <<>>]

\* operator new: the lowest free cell, or NULL when the store is exhausted.
NewCell(s) == LET free == (1..s.cap) \ s.alive
              IN IF free = {} THEN NULL
                 ELSE CHOOSE n \in free : \A m \in free : n <= m

\* operator delete on one cell (delete nullptr is a no-op).
Delete(s, n) == IF n = NULL THEN s
                ELSE [s EXCEPT !.heap[n] = Blank, !.alive = @ \ {n},
                               !.frees = Append(@, n)]

\* Compare comp: std::less<int>.
comp(x, y) == x < y

npl(h, x) == IF x = NULL THEN 0 ELSE h[x].dist

\* Lines 39-43 without the exchange of the children.
RelinkNoSwap(h, a, nr) ==
    LET h1 == [h EXCEPT ![a].right = nr]
    IN [h1 EXCEPT ![a].dist = npl(h1, h1[a].right) + 1]

\* Lines 39-43 with dist computed before the children are exchanged.
RelinkStaleDist(h, a, nr) ==
    LET h1 == [h EXCEPT ![a].right = nr, ![a].dist = npl(h, nr) + 1]
    IN IF npl(h1, h1[a].left) < npl(h1, h1[a].right)
       THEN [h1 EXCEPT ![a].left = h1[a].right, ![a].right = h1[a].left]
       ELSE h1

\* The field writes of lines 39-42, in order: a->right, the two writes of
\* the exchange when it happens, a->dist.
RelinkLog(h, a, nr) ==
    <<"write">> \o (IF npl(h, h[a].left) < npl(h, nr) THEN <<"write", "write">> ELSE <<>>)
                \o <<"write">>

\* Lines 39-43 of meld: attach the melded subtree, restore the leftist
\* property, recompute dist.
Relink(h, a, nr) ==
    LET h1 == [h EXCEPT ![a].right = nr]
        h2 == IF npl(h1, h1[a].left) < npl(h1, h1[a].right)
              THEN [h1 EXCEPT ![a].left = h1[a].right, ![a].right = h1[a].left]
              ELSE h1
    IN [h2 EXCEPT ![a].dist = npl(h2, h2[a].right) + 1]

\* Line 36 without the exchange of a and b.
OrderNoSwap(h, a, b) == <<a, b>>

\* Line 36 with the comparator's arguments exchanged.
OrderFlipped(h, a, b) == IF comp(h[b].val, h[a].val) THEN <<b, a>> ELSE <<a, b>>

\* Line 36 of meld: after the comparison, a names the root that stays on top.
Order(h, a, b) == IF comp(h[a].val, h[b].val) THEN <<b, a>> ELSE <<a, b>>

\* meld with the right child detached before the recursive call instead of
\* being overwritten after it.
RECURSIVE meldDetach(_, _, _, _)
meldDetach(h, a, b, k) ==
    IF a = NULL THEN [h |-> h, root |-> b, thrown |-> FALSE, cmp |-> 0, log |-> <<>>]
    ELSE IF b = NULL THEN [h |-> h, root |-> a, thrown |-> FALSE, cmp |-> 0, log |-> <<>>]
    ELSE IF k = 1 THEN [h |-> h, root |-> NULL, thrown |-> TRUE, cmp |-> 1,
                        log |-> <<"comp">>]
    ELSE LET ab == Order(h, a, b)
             a1 == ab[1]
             b1 == ab[2]
             r == meldDetach([h EXCEPT ![a1].right = NULL], h[a1].right, b1,
                             IF k = 0 THEN 0 ELSE k - 1)
         IN IF r.thrown
            THEN [r EXCEPT !.cmp = @ + 1, !.log = <<"comp", "write">> \o @]
            ELSE [h |-> Relink(r.h, a1, r.root), root |-> a1, thrown |-> FALSE,
                  cmp |-> r.cmp + 1,
                  log |-> <<"comp", "write">> \o r.log \o RelinkLog(r.h, a1, r.root)]

\* A meld that recurses into the left child of the kept root.
RECURSIVE meldLeft(_, _, _, _)
meldLeft(h, a, b, k) ==
    IF a = NULL THEN [h |-> h, root |-> b, thrown |-> FALSE, cmp |-> 0, log |-> <<>>]
    ELSE IF b = NULL THEN [h |-> h, root |-> a, thrown |-> FALSE, cmp |-> 0, log |-> <<>>]
    ELSE IF k = 1 THEN [h |-> h, root |-> NULL, thrown |-> TRUE, cmp |-> 1,
                        log |-> <<"comp">>]
    ELSE LET ab == Order(h, a, b)
             a1 == ab[1]
             b1 == ab[2]
             r == meldLeft(h, h[a1].left, b1, IF k = 0 THEN 0 ELSE k - 1)
         IN IF r.thrown
            THEN [r EXCEPT !.cmp = @ + 1, !.log = <<"comp">> \o @]
            ELSE [h |-> [r.h EXCEPT ![a1].left = r.root,
                                    ![a1].dist = npl(r.h, r.h[a1].right) + 1],
                  root |-> a1, thrown |-> FALSE, cmp |-> r.cmp + 1,
                  log |-> <<"comp">> \o r.log \o <<"write", "write">>]

\* meld(a, b) on heap h.  k is the comparator invocation (counted from this
\* call) that throws, 0 for none.  The result carries the heap as the call
\* left it, the returned root, whether an exception is propagating, the
\* number of comparator invocations made, and the order in which it invoked
\* the comparator ("comp") and wrote node fields ("write").
RECURSIVE meld(_, _, _, _)
meld(h, a, b, k) ==
    IF a = NULL THEN [h |-> h, root |-> b, thrown |-> FALSE, cmp |-> 0, log |-> <<>>]
    ELSE IF b = NULL THEN [h |-> h, root |-> a, thrown |-> FALSE, cmp |-> 0, log |-> <<>>]
    ELSE IF k = 1 THEN [h |-> h, root |-> NULL, thrown |-> TRUE, cmp |-> 1,
                        log |-> <<"comp">>]
    ELSE LET ab == Order(h, a, b)
             a1 == ab[1]
             b1 == ab[2]
             r == meld(h, h[a1].right, b1, IF k = 0 THEN 0 ELSE k - 1)
         IN IF r.thrown
            THEN [r EXCEPT !.cmp = @ + 1, !.log = <<"comp">> \o @]
            ELSE [h |-> Relink(r.h, a1, r.root), root |-> a1, thrown |-> FALSE,
                  cmp |-> r.cmp + 1,
                  log |-> <<"comp">> \o r.log \o RelinkLog(r.h, a1, r.root)]

\* destroy(x): post-order deletion of the subtree at x.
RECURSIVE destroy(_, _)
destroy(s, x) ==
    IF x = NULL THEN s
    ELSE Delete(destroy(destroy(s, s.heap[x].left), s.heap[x].right), x)

\* A clone that returns the source's own nodes.
cloneShallow(s, x, j) == [s |-> s, root |-> x, thrown |-> FALSE, j |-> j]

\* clone(x).  j is the allocation (counted from this call) that throws
\* std::bad_alloc, 0 for none; an exhausted store throws as well.  Nothing
\* catches the exception, so the cells allocated so far stay allocated.
RECURSIVE clone(_, _, _)
clone(s, x, j) ==
    IF x = NULL THEN [s |-> s, root |-> NULL, thrown |-> FALSE, j |-> j]
    ELSE LET n == IF j = 1 THEN NULL ELSE NewCell(s)
             j1 == IF j = 0 THEN 0 ELSE j - 1
         IN IF n = NULL
            THEN [s |-> s, root |-> NULL, thrown |-> TRUE, j |-> 0]
            ELSE LET s1 == [s EXCEPT !.heap[n] = [Node(s.heap[x].val) EXCEPT !.dist = s.heap[x].dist],
                                     !.alive = @ \cup {n}]
                     l == clone(s1, s.heap[x].left, j1)
                 IN IF l.thrown THEN l
                    ELSE LET s2 == [l.s EXCEPT !.heap[n].left = l.root]
                             r == clone(s2, s.heap[x].right, l.j)
                         IN IF r.thrown THEN r
                            ELSE [s |-> [r.s EXCEPT !.heap[n].right = r.root],
                                  root |-> n, thrown |-> FALSE, j |-> r.j]

\* -------------------------------------------------------------- operations
\* Every operation maps the state before the call to the state after it and
\* an outcome: "ok", "empty" (container_is_empty), "comp_throw" (the
\* comparator's exception propagates), "bad_alloc", or "noop" (self
\* argument).  a, b and res are the arguments and the result of the call's
\* top-level meld (res is NULL when it threw), cmp its comparator invocations,
\* threw whether one of them threw, val the value top() returns, log the
\* meld's comparator invocations and field writes in order.
Result(s, outcome, a, b, res, cmp, val, threw, log) ==
    [s |-> s, outcome |-> outcome, a |-> a, b |-> b, res |-> res, cmp |-> cmp,
     val |-> val, threw |-> threw, log |-> log]


empty(s, q) == s.cnt[q] = 0

size(s, q) == s.cnt[q]

\* A top() that returns a default value from an empty queue.
topNoThrow(s, q) ==
    IF empty(s, q) THEN Result(s, "ok", NULL, NULL, NULL, 0, 0, FALSE, <<>>)
    ELSE Result(s, "ok", NULL, NULL, NULL, 0, s.heap[s.root[q]].val, FALSE, <<>>)

\* top()
top(s, q) ==
    IF empty(s, q) THEN Result(s, "empty", NULL, NULL, NULL, 0, 0, FALSE, <<>>)
    ELSE Result(s, "ok", NULL, NULL, NULL, 0, s.heap[s.root[q]].val, FALSE, <<>>)

\* A catch block of push that rethrows without deleting n.
PushCatchLeak(s, n) == s

\* catch (...) of push: delete n, rethrow.
PushCatch(s, n) == Delete(s, n)

\* root = new_root; ++cnt;
PushCommit(s, q, nr) == [s EXCEPT !.root[q] = nr, !.cnt[q] = @ + 1]

\* push(e).  af: operator new throws; k: the comparator call that throws.
push(s, q, e, af, k) ==
    LET n == IF af THEN NULL ELSE NewCell(s)
    IN IF n = NULL
       THEN Result(PushCatch(s, NULL), "bad_alloc", NULL, NULL, NULL, 0, 0, FALSE, <<>>)
       ELSE LET s1 == [s EXCEPT !.heap[n] = Node(e), !.alive = @ \cup {n}]
                m == meld(s1.heap, s1.root[q], n, k)
                s2 == [s1 EXCEPT !.heap = m.h]
            IN IF m.thrown
               THEN Result(PushCatch(s2, n), "comp_throw", s.root[q], n, NULL, m.cmp, 0, m.thrown, m.log)
               ELSE Result(PushCommit(s2, q, m.root), "ok", s.root[q], n, m.root, m.cmp, 0, m.thrown, m.log)

\* catch (...) of pop: rethrow only.
PopCatch(s, old) == s

\* A pop that keeps only the left subtree of the old root.
PopCommitLeft(s, q, nr, old) ==
    Delete([s EXCEPT !.root[q] = s.heap[old].left, !.cnt[q] = @ - 1], old)

\* A pop that does not decrement cnt.
PopCommitNoDec(s, q, nr, old) == Delete([s EXCEPT !.root[q] = nr], old)

\* A pop that destroys the old root's whole subtree instead of deleting
\* the old root alone.
PopCommitDestroy(s, q, nr, old) ==
    destroy([s EXCEPT !.root[q] = nr, !.cnt[q] = @ - 1], old)

\* root = new_root; --cnt; delete old;
PopCommit(s, q, nr, old) == Delete([s EXCEPT !.root[q] = nr, !.cnt[q] = @ - 1], old)

\* pop()
pop(s, q, k) ==
    IF empty(s, q) THEN Result(s, "empty", NULL, NULL, NULL, 0, 0, FALSE, <<>>)
    ELSE LET old == s.root[q]
             L == s.heap[old].left
             R == s.heap[old].right
             m == meld(s.heap, L, R, k)
             s1 == [s EXCEPT !.heap = m.h]
         IN IF m.thrown
            THEN Result(PopCatch(s1, old), "comp_throw", L, R, NULL, m.cmp, 0, m.thrown, m.log)
            ELSE Result(PopCommit(s1, q, m.root, old), "ok", L, R, m.root, m.cmp, 0, m.thrown, m.log)

\* A catch block of merge that clears other before rethrowing.
MergeCatchClear(s, q, o) == [s EXCEPT !.root[o] = NULL, !.cnt[o] = 0]

\* catch (...) of merge: rethrow only.
MergeCatch(s, q, o) == s

\* A merge that assigns other.cnt to cnt instead of adding it.
MergeCommitAssignCnt(s, q, o, nr) ==
    [s EXCEPT !.root = [@ EXCEPT ![q] = nr, ![o] = NULL],
              !.cnt = [@ EXCEPT ![q] = s.cnt[o], ![o] = 0]]

\* root = new_root; cnt += other.cnt; other.root = nullptr; other.cnt = 0;
MergeCommit(s, q, o, nr) ==
    [s EXCEPT !.root = [@ EXCEPT ![q] = nr, ![o] = NULL],
              !.cnt = [@ EXCEPT ![q] = s.cnt[q] + s.cnt[o], ![o] = 0]]

\* merge without the test for a self argument.
mergeNoSelfTest(s, q, o, k) ==
    LET r1 == s.root[q]
        r2 == s.root[o]
        m == meld(s.heap, r1, r2, k)
        s1 == [s EXCEPT !.heap = m.h]
    IN IF m.thrown
       THEN Result(MergeCatch(s1, q, o), "comp_throw", r1, r2, NULL, m.cmp, 0, m.thrown, m.log)
       ELSE Result(MergeCommit(s1, q, o, m.root), "ok", r1, r2, m.root, m.cmp, 0, m.thrown, m.log)

\* merge(other)
merge(s, q, o, k) ==
    IF q = o THEN Result(s, "noop", NULL, NULL, NULL, 0, 0, FALSE, <<>>)
    ELSE LET r1 == s.root[q]
             r2 == s.root[o]
             m == meld(s.heap, r1, r2, k)
             s1 == [s EXCEPT !.heap = m.h]
         IN IF m.thrown
            THEN Result(MergeCatch(s1, q, o), "comp_throw", r1, r2, NULL, m.cmp, 0, m.thrown, m.log)
            ELSE Result(MergeCommit(s1, q, o, m.root), "ok", r1, r2, m.root, m.cmp, 0, m.thrown, m.log)

\* priority_queue(): root = nullptr, cnt = 0.
ctor(s, q) == Result([s EXCEPT !.live[q] = TRUE, !.root[q] = NULL, !.cnt[q] = 0],
                     "ok", NULL, NULL, NULL, 0, 0, FALSE, <<>>)

\* priority_queue(const priority_queue &other).  When clone throws, the
\* object is never constructed and no destructor runs.
copyctor(s, q, o, j) ==
    LET c == clone(s, s.root[o], j)
    IN IF c.thrown
       THEN Result(c.s, "bad_alloc", NULL, NULL, NULL, 0, 0, FALSE, <<>>)
       ELSE Result([c.s EXCEPT !.live[q] = TRUE, !.root[q] = c.root, !.cnt[q] = s.cnt[o]],
                   "ok", NULL, NULL, c.root, 0, 0, FALSE, <<>>)

\* ~priority_queue(): destroy(root); the object's members cease to exist.
dtor(s, q) ==
    Result([destroy(s, s.root[q]) EXCEPT !.live[q] = FALSE, !.root[q] = NULL, !.cnt[q] = 0],
           "ok", NULL, NULL, NULL, 0, 0, FALSE, <<>>)

\* An operator= that destroys the receiver's tree before it clones.
assignDestroyFirst(s, q, o, j) ==
    IF q = o THEN Result(s, "noop", NULL, NULL, NULL, 0, 0, FALSE, <<>>)
    ELSE LET s0 == [destroy(s, s.root[q]) EXCEPT !.root[q] = NULL, !.cnt[q] = 0]
             c == clone(s0, s.root[o], j)
         IN IF c.thrown
            THEN Result(c.s, "bad_alloc", NULL, NULL, NULL, 0, 0, FALSE, <<>>)
            ELSE Result([c.s EXCEPT !.root[q] = c.root, !.cnt[q] = s.cnt[o]],
                        "ok", NULL, NULL, c.root, 0, 0, FALSE, <<>>)

\* operator=(other): copy-construct tmp, swap root and cnt with tmp, then
\* tmp's destructor destroys the receiver's previous tree.
assign(s, q, o, j) ==
    IF q = o THEN Result(s, "noop", NULL, NULL, NULL, 0, 0, FALSE, <<>>)
    ELSE LET c == clone(s, s.root[o], j)
         IN IF c.thrown
            THEN Result(c.s, "bad_alloc", NULL, NULL, NULL, 0, 0, FALSE, <<>>)
            ELSE LET tr == s.root[q]
                     s1 == [c.s EXCEPT !.root[q] = c.root, !.cnt[q] = s.cnt[o]]
                 IN Result(destroy(s1, tr), "ok", NULL, NULL, c.root, 0, 0, FALSE, <<>>)

\* ----------------------------------------------------------------- actions
\* A call by the client: the program state becomes the operation's result;
\* last records the call, its outcome and the state it started from.
Apply(r, op, q, o, e) ==
    /\ heap' = r.s.heap
    /\ alive' = r.s.alive
    /\ cap' = r.s.cap
    /\ live' = r.s.live
    /\ root' = r.s.root
    /\ cnt' = r.s.cnt
    /\ last' = [op |-> op, q |-> q, o |-> o, e |-> e, outcome |-> r.outcome,
                pre |-> Cur, a |-> r.a, b |-> r.b, res |-> r.res,
                cmp |-> r.cmp, val |-> r.val, threw |-> r.threw,
                log |-> r.log, frees |-> r.s.frees]

Ctor(q) ==
    /\ ~live[q]
    /\ Apply(ctor(Cur, q), "ctor", q, q, 0)
    /\ UNCHANGED run

CopyCtor(q, o) ==
    /\ ~live[q] /\ live[o]
    /\ \E j \in 0..MaxThrow : Apply(copyctor(Cur, q, o, j), "copyctor", q, o, 0)
    /\ UNCHANGED run

Dtor(q) ==
    /\ live[q]
    /\ Apply(dtor(Cur, q), "dtor", q, q, 0)
    /\ UNCHANGED run

Assign(q, o) ==
    /\ live[q] /\ live[o]
    /\ \E j \in 0..MaxThrow : Apply(assign(Cur, q, o, j), "assign", q, o, 0)
    /\ UNCHANGED run

Top(q) ==
    /\ live[q]
    /\ Apply(top(Cur, q), "top", q, q, 0)
    /\ UNCHANGED run

Push(q) ==
    /\ live[q]
    /\ \E e \in Vals, af \in BOOLEAN, k \in 0..MaxThrow :
           Apply(push(Cur, q, e, af, k), "push", q, q, e)
    /\ UNCHANGED run

Pop(q) ==
    /\ live[q]
    /\ \E k \in 0..MaxThrow : Apply(pop(Cur, q, k), "pop", q, q, 0)
    /\ UNCHANGED run

Merge(q, o) ==
    /\ live[q] /\ live[o]
    /\ \E k \in 0..MaxThrow : Apply(merge(Cur, q, o, k), "merge", q, o, 0)
    /\ UNCHANGED run

NoCall == [op |-> "init", q |-> 0, o |-> 0, e |-> 0, outcome |-> "ok",
           pre |-> [heap |-> [n \in Nodes |-> Blank], alive |-> {}, cap |-> 0,
                    live |-> [q \in Handles |-> FALSE],
                    root |-> [q \in Handles |-> NULL], cnt |-> [q \in Handles |-> 0],
                    frees |-> <<>>],
           a |-> NULL, b |-> NULL, res |-> NULL, cmp |-> 0, val |-> 0, threw |-> FALSE,
           log |-> <<>>, frees |-> <<>>]

\* Queue 1 has been default-constructed; the other handles are not yet
\* constructed and no node is allocated.
Init ==
    /\ heap = [n \in Nodes |-> Blank]
    /\ alive = {}
    /\ cap = SmallStore
    /\ live = [q \in Handles |-> q = 1]
    /\ root = [q \in Handles |-> NULL]
    /\ cnt = [q \in Handles |-> 0]
    /\ last = NoCall
    /\ run = [phase |-> "push", pushed |-> <<>>, out |-> <<>>, final |-> <<>>]

Next ==
    \/ \E q \in Queues : Ctor(q)
    \/ \E q \in Queues, o \in Queues : CopyCtor(q, o)
    \/ \E q \in Queues : Dtor(q)
    \/ \E q \in Queues, o \in Queues : Assign(q, o)
    \/ \E q \in Queues : Top(q)
    \/ \E q \in Queues : Push(q)
    \/ \E q \in Queues : Pop(q)
    \/ \E q \in Queues, o \in Queues : Merge(q, o)

Spec == Init /\ [][Next]_vars

\* One default-constructed queue that lives for the whole run and is only
\* pushed to, popped and read, over the whole free store.
SoloInit ==
    /\ heap = [n \in Nodes |-> Blank]
    /\ alive = {}
    /\ cap = MaxNodes
    /\ live = [q \in Handles |-> q = 1]
    /\ root = [q \in Handles |-> NULL]
    /\ cnt = [q \in Handles |-> 0]
    /\ last = NoCall
    /\ run = [phase |-> "push", pushed |-> <<>>, out |-> <<>>, final |-> <<>>]

SoloNext == Top(1) \/ Push(1) \/ Pop(1)

SoloSpec == SoloInit /\ [][SoloNext]_vars

\* Three objects over the small store: queues 1 and 3 are default-constructed,
\* queue 2 is made and remade as a copy of queue 1; all are pushed to, 1 and
\* 2 are popped, and queue 1 takes queue 2 or queue 3 by merge.
TrioInit ==
    /\ heap = [n \in Nodes |-> Blank]
    /\ alive = {}
    /\ cap = SmallStore
    /\ live = [q \in Handles |-> q # 2]
    /\ root = [q \in Handles |-> NULL]
    /\ cnt = [q \in Handles |-> 0]
    /\ last = NoCall
    /\ run = [phase |-> "push", pushed |-> <<>>, out |-> <<>>, final |-> <<>>]

TrioNext ==
    \/ CopyCtor(2, 1)
    \/ Assign(2, 1)
    \/ \E q \in Handles : Push(q)
    \/ \E q \in {1, 2} : Pop(q)
    \/ \E o \in {2, 3} : Merge(1, o)

TrioSpec == TrioInit /\ [][TrioNext]_vars

\* A client that pushes up to MaxRun elements into queue 1, then reads
\* top() and calls pop() once per pushed element, then calls top() and
\* pop() once more.  No comparator or allocation failure is injected.
SortPush ==
    /\ run.phase = "push"
    /\ Len(run.pushed) < MaxRun
    /\ \E e \in SortVals :
           LET r == push(Cur, 1, e, FALSE, 0)
           IN /\ Apply(r, "push", 1, 1, e)
              /\ run' = IF r.outcome = "ok"
                        THEN [run EXCEPT !.pushed = Append(@, e)]
                        ELSE run

SortPop ==
    /\ run.phase \in {"push", "pop"}
    /\ Len(run.out) < Len(run.pushed)
    /\ LET t == top(Cur, 1)
           r == pop(t.s, 1, 0)
       IN /\ Apply(r, "pop", 1, 1, 0)
          /\ run' = [run EXCEPT !.phase = "pop", !.out = Append(@, t.val)]

SortDrained ==
    /\ run.phase \in {"push", "pop"}
    /\ Len(run.out) = Len(run.pushed)
    /\ LET t == top(Cur, 1)
           r == pop(t.s, 1, 0)
       IN /\ Apply(r, "pop", 1, 1, 0)
          /\ run' = [run EXCEPT !.phase = "done",
                                !.final = <<size(Cur, 1), t.outcome, r.outcome>>]

SortNext == SortPush \/ SortPop \/ SortDrained

SortSpec == SoloInit /\ [][SortNext]_vars

\* ------------------------------------------------- structure of the trees
\* The cells reachable from the cells of S by left and right links.
RECURSIVE Closure(_, _)
Closure(h, S) ==
    LET T == S \cup {h[n].left : n \in S} \cup {h[n].right : n \in S}
    IN IF T \ {NULL} = S THEN S ELSE Closure(h, T \ {NULL})

Reach(h, x) == Closure(h, {x} \ {NULL})

\* The multiset of values stored in the tree at x.
ValBag(h, x) == [v \in AllVals |-> Cardinality({n \in Reach(h, x) : h[n].val = v})]

BagSum(A, B) == [v \in AllVals |-> A[v] + B[v]]

BagOfSeq(sq) == [v \in AllVals |-> Cardinality({i \in 1..Len(sq) : sq[i] = v})]

\* v is a comparator-maximum of bag B: v occurs and precedes no element.
IsMax(v, B) == v \in AllVals /\ B[v] > 0 /\ \A w \in AllVals : B[w] > 0 => ~(v < w)

Leftist(h, n) == npl(h, h[n].left) >= npl(h, h[n].right)

RankOK(h, n) == h[n].dist = npl(h, h[n].right) + 1

HeapOrder(h, n) ==
    \A c \in {h[n].left, h[n].right} \ {NULL} : ~(h[n].val < h[c].val)

ValidTree(h, x) ==
    \A n \in Reach(h, x) : Leftist(h, n) /\ RankOK(h, n) /\ HeapOrder(h, n)

\* The state before the last call.
Pre == last.pre

\* The cell operator new hands out in the state before the last call.
PreNew == NewCell(Pre)

\* ------------------------------------------------------------------ claims
\* C1: if the comparator throws during push(e), the exception propagates and
\* the queue is exactly as before the call (root, count, every node's
\* fields); the node allocated for e is freed and unreachable.
C1_PushThrowRestores ==
    (last.op = "push" /\ last.threw) =>
        /\ last.outcome = "comp_throw"
        /\ root = Pre.root /\ cnt = Pre.cnt /\ live = Pre.live
        /\ alive = Pre.alive
        /\ \A n \in Pre.alive : heap[n] = Pre.heap[n]
        /\ PreNew \notin alive
        /\ \A q \in Queues : PreNew \notin Reach(heap, root[q])

\* A push that failed at its second comparator invocation, deep in meld.
C1_Witness ==
    /\ last.op = "push" /\ last.threw /\ last.cmp = 2
    /\ cnt[last.q] = 3

\* C2: if the comparator throws while pop() melds the root's subtrees, the
\* exception propagates, the root and its children stay attached, count is
\* unchanged, no node is freed and every node's fields are as before.
C2_PopThrowRestores ==
    (last.op = "pop" /\ last.threw) =>
        /\ last.outcome = "comp_throw"
        /\ root = Pre.root /\ cnt = Pre.cnt
        /\ heap[root[last.q]].left = last.a /\ heap[root[last.q]].right = last.b
        /\ alive = Pre.alive
        /\ \A n \in Nodes : heap[n] = Pre.heap[n]

\* A pop that failed at its second comparator invocation, deep in meld.
C2_Witness ==
    /\ last.op = "pop" /\ last.threw /\ last.cmp = 2
    /\ last.a # NULL /\ last.b # NULL /\ root[last.q] \in alive

\* C3: if the comparator throws during a.merge(b), a # b, both queues are
\* unchanged; b is reset to empty only when the meld returned.
C3_MergeThrowRestores ==
    (last.op = "merge" /\ last.q # last.o) =>
        /\ last.threw =>
              /\ last.outcome = "comp_throw"
              /\ root = Pre.root /\ cnt = Pre.cnt
              /\ alive = Pre.alive
              /\ \A n \in Nodes : heap[n] = Pre.heap[n]
        /\ last.outcome # "ok" =>
              root[last.o] = Pre.root[last.o] /\ cnt[last.o] = Pre.cnt[last.o]

\* A merge of two non-empty queues that failed at the second comparison.
C3_Witness ==
    /\ last.op = "merge" /\ last.q # last.o /\ last.threw /\ last.cmp = 2
    /\ cnt[last.q] > 0 /\ cnt[last.o] > 0

\* The heap the last call's meld started from: push has allocated its node.
MeldIn ==
    IF last.op = "push" THEN [Pre.heap EXCEPT ![last.b] = Node(last.e)] ELSE Pre.heap

\* C4: for node-disjoint trees a and b that satisfy the leftist property,
\* rank consistency and heap order, a meld that returns yields a tree that
\* satisfies all three, made of exactly the nodes of a and b with their
\* values, so its multiset of values is the union of the two.
C4_MeldUnion ==
    (/\ last.op \in {"push", "pop", "merge"} /\ last.outcome = "ok"
     /\ ValidTree(MeldIn, last.a) /\ ValidTree(MeldIn, last.b)
     /\ Reach(MeldIn, last.a) \cap Reach(MeldIn, last.b) = {}) =>
        /\ ValidTree(heap, last.res)
        /\ Reach(heap, last.res) = Reach(MeldIn, last.a) \cup Reach(MeldIn, last.b)
        /\ \A n \in Reach(heap, last.res) : heap[n].val = MeldIn[n].val
        /\ ValBag(heap, last.res) = BagSum(ValBag(MeldIn, last.a), ValBag(MeldIn, last.b))

\* A pop whose meld of two present subtrees made two comparisons.
C4_Witness ==
    /\ last.op = "pop" /\ last.outcome = "ok" /\ last.cmp = 2
    /\ last.a # NULL /\ last.b # NULL
    /\ ValidTree(MeldIn, last.a) /\ ValidTree(MeldIn, last.b)

\* C5: in every reachable state every node of every queue has
\* rank(left) >= rank(right) and rank = rank(right) + 1, rank(absent) = 0.
C5_LeftistRanks ==
    \A q \in Queues : live[q] =>
        \A n \in Reach(heap, root[q]) : Leftist(heap, n) /\ RankOK(heap, n)

\* A failed call leaves a queue whose root has rank 2.
C5_Witness ==
    /\ last.outcome \in {"comp_throw", "bad_alloc"}
    /\ \E q \in Queues : live[q] /\ cnt[q] >= 3 /\ heap[root[q]].dist = 2

\* C6: in every reachable state no node precedes a present child under the
\* comparator, hence the root is a comparator-maximum of its tree.
C6_HeapOrder ==
    \A q \in Queues : live[q] =>
        /\ \A n \in Reach(heap, root[q]) : HeapOrder(heap, n)
        /\ \A n \in Reach(heap, root[q]) : ~(heap[root[q]].val < heap[n].val)

\* A queue built by a merge holds a larger value above a smaller one.
C6_Witness ==
    /\ last.op = "merge" /\ last.outcome = "ok" /\ last.cmp >= 1
    /\ \E n \in Reach(heap, root[last.q]) : heap[n].val < heap[root[last.q]].val

\* C7: in every reachable state size() is the number of nodes reachable
\* from the root, and the root is absent exactly when size() = 0.
C7_CountConsistent ==
    \A q \in Queues : live[q] =>
        /\ size(Cur, q) = Cardinality(Reach(heap, root[q]))
        /\ (root[q] = NULL) <=> (size(Cur, q) = 0)

\* A copy failed partway and left cells behind; a queue holds two nodes.
C7_Witness ==
    /\ last.op \in {"copyctor", "assign"} /\ last.outcome = "bad_alloc"
    /\ alive # Pre.alive
    /\ \E q \in Queues : live[q] /\ cnt[q] >= 2

\* The multiset a queue holds now, and the one it held before the last call.
NowBag(q) == ValBag(heap, root[q])

PreBag(q) == ValBag(Pre.heap, Pre.root[q])

UnitBag(e) == [v \in AllVals |-> IF v = e THEN 1 ELSE 0]

\* The last call changed the multiset of its queue as the reference
\* multiset changes.
RefStep ==
    LET q == last.q
        ok == last.outcome = "ok"
    IN CASE last.op = "push" ->
              NowBag(q) = IF ok THEN BagSum(PreBag(q), UnitBag(last.e)) ELSE PreBag(q)
         [] last.op = "pop" ->
              IF ok
              THEN \E m \in AllVals : /\ IsMax(m, PreBag(q))
                                   /\ NowBag(q) = [PreBag(q) EXCEPT ![m] = @ - 1]
              ELSE NowBag(q) = PreBag(q)
         [] last.op = "merge" ->
              NowBag(q) = IF ok THEN BagSum(PreBag(q), PreBag(last.o)) ELSE PreBag(q)
         [] last.op = "top" -> NowBag(q) = PreBag(q)
         [] OTHER -> TRUE

\* C8: top() of a non-empty queue is a comparator-maximum of the elements
\* it contains, the contained multiset being the reference one: a
\* successful push(e) adds e, a successful pop removes one maximum, a
\* successful merge(other) adds other's elements, a failed call changes
\* nothing.
C8_TopIsMax ==
    /\ RefStep
    /\ \A q \in Queues : (live[q] /\ ~empty(Cur, q)) =>
           top(Cur, q).outcome = "ok" /\ IsMax(top(Cur, q).val, NowBag(q))
    /\ (last.op = "top" /\ last.outcome = "ok") => IsMax(last.val, NowBag(last.q))

\* top() returned 2 from a queue of at least three elements that holds a 1.
C8_Witness ==
    /\ last.op = "top" /\ last.outcome = "ok" /\ last.val = 2
    /\ cnt[last.q] >= 3 /\ NowBag(last.q)[1] >= 1

\* C9: pushing n elements into an empty queue, then reading top() and
\* calling pop() n times yields a permutation of the pushed elements in
\* non-increasing comparator order; then size() = 0 and top() and pop()
\* raise container_is_empty.
C9_HeapSort ==
    /\ \A i \in 1..Len(run.out) : \A j \in 1..Len(run.out) :
           i < j => ~(run.out[i] < run.out[j])
    /\ \A v \in AllVals : BagOfSeq(run.out)[v] <= BagOfSeq(run.pushed)[v]
    /\ \A i \in 1..Len(run.out) : run.out[i] \in AllVals
    /\ (run.phase = "pop" /\ Len(run.out) = Len(run.pushed)) =>
           BagOfSeq(run.out) = BagOfSeq(run.pushed) /\ size(Cur, 1) = 0
    /\ run.phase = "done" => run.final = <<0, "empty", "empty">>

\* A full run over at least four elements, three of them distinct, pushed
\* in ascending order.
C9_Witness ==
    /\ run.phase = "done" /\ Len(run.pushed) >= 4 /\ Len(run.out) = Len(run.pushed)
    /\ run.pushed[1] < run.pushed[2] /\ run.pushed[2] < run.pushed[3]

\* C10: after a successful a.merge(b), a # b: a.size() is the sum of the two
\* sizes before, b is empty with its root absent, and a.top() (if any) is a
\* comparator-maximum of the union of the two original multisets.
C10_MergePost ==
    (last.op = "merge" /\ last.q # last.o /\ last.outcome = "ok") =>
        /\ size(Cur, last.q) = size(Pre, last.q) + size(Pre, last.o)
        /\ empty(Cur, last.o) /\ root[last.o] = NULL
        /\ ~empty(Cur, last.q) =>
              /\ top(Cur, last.q).outcome = "ok"
              /\ IsMax(top(Cur, last.q).val, BagSum(PreBag(last.q), PreBag(last.o)))

\* A merge of a one-element queue into a larger one that changed the top.
C10_Witness ==
    /\ last.op = "merge" /\ last.q # last.o /\ last.outcome = "ok"
    /\ Pre.cnt[last.q] >= 2 /\ Pre.cnt[last.o] >= 1
    /\ heap[root[last.q]].val # Pre.heap[Pre.root[last.q]].val

\* The last call left the program state as it was: every queue's root and
\* cnt, the allocated cells and every cell's fields.
Untouched ==
    /\ root = Pre.root /\ cnt = Pre.cnt /\ live = Pre.live
    /\ alive = Pre.alive
    /\ \A n \in Nodes : heap[n] = Pre.heap[n]

\* C11: top() and pop() raise container_is_empty iff size() = 0 at the
\* call; a call that raises it changes nothing and invokes no comparator.
C11_EmptyError ==
    last.op \in {"top", "pop"} =>
        /\ (last.outcome = "empty") <=> (size(Pre, last.q) = 0)
        /\ last.outcome = "empty" =>
              Untouched /\ last.cmp = 0 /\ last.log = <<>> /\ last.frees = <<>>

\* pop() raised the error on a queue that a merge has emptied while the
\* other queue holds elements.
C11_Witness ==
    /\ last.op = "pop" /\ last.outcome = "empty"
    /\ \E o \in Queues : live[o] /\ cnt[o] >= 2

\* C12: merge with the queue itself as argument invokes the comparator zero
\* times and leaves root, count and every node unchanged.
C12_SelfMerge ==
    (last.op = "merge" /\ last.q = last.o) =>
        /\ last.cmp = 0 /\ last.log = <<>>
        /\ Untouched
        /\ last.outcome = "noop"

\* A self-merge of a queue of at least three elements.
C12_Witness ==
    /\ last.op = "merge" /\ last.q = last.o
    /\ cnt[last.q] >= 3 /\ root[last.q] # NULL

\* The trees at x and y have the same shape, values and ranks.
RECURSIVE SameTree(_, _, _)
SameTree(h, x, y) ==
    IF x = NULL \/ y = NULL THEN x = y
    ELSE /\ h[x].val = h[y].val /\ h[x].dist = h[y].dist
         /\ SameTree(h, h[x].left, h[y].left)
         /\ SameTree(h, h[x].right, h[y].right)

\* Queue p is as it was before the last call: root, cnt and every node.
KeptQueue(p) ==
    /\ root[p] = Pre.root[p] /\ cnt[p] = Pre.cnt[p]
    /\ \A n \in Reach(Pre.heap, Pre.root[p]) : n \in alive /\ heap[n] = Pre.heap[n]

\* Queue 2 of TrioSpec only ever comes to exist as a copy of queue 1.
CopyPair == {1, 2}

\* C13 as stated: a copy has the size and tree of its source and shares no
\* node with it; afterwards a push, pop or merge on one of the two queues
\* leaves the other's size, contents and tree unchanged.
C13_Original ==
    /\ (last.op \in {"copyctor", "assign"} /\ last.outcome = "ok") =>
          /\ size(Cur, last.q) = size(Cur, last.o)
          /\ SameTree(heap, root[last.q], root[last.o])
          /\ Reach(heap, root[last.q]) \cap Reach(heap, root[last.o]) = {}
          /\ KeptQueue(last.o)
    /\ last.op \in {"push", "pop", "merge"} =>
          \A p \in CopyPair \ {last.q} : live[p] => KeptQueue(p)

\* C13 (amended): a queue made by copy-construction or copy-assignment has
\* the size of the source and a tree of the same shape, values and ranks,
\* and shares no node with it; afterwards a push, pop or merge leaves every
\* queue that is neither its receiver nor its argument unchanged.
C13_CopyIndependent ==
    /\ (last.op \in {"copyctor", "assign"} /\ last.outcome = "ok") =>
          /\ size(Cur, last.q) = size(Cur, last.o)
          /\ SameTree(heap, root[last.q], root[last.o])
          /\ Reach(heap, root[last.q]) \cap Reach(heap, root[last.o]) = {}
          /\ KeptQueue(last.o)
    /\ last.op \in {"push", "pop", "merge"} =>
          \A p \in Handles \ {last.q, last.o} : live[p] => KeptQueue(p)

\* Queue 2 was a copy of queue 1 when queue 1 took queue 3 by a merge that
\* compared elements.
C13_Witness ==
    /\ last.op = "merge" /\ last.q = 1 /\ last.o = 3 /\ last.outcome = "ok"
    /\ last.cmp >= 1
    /\ live[2] /\ cnt[2] >= 1
    /\ SameTree(Pre.heap, Pre.root[1], Pre.root[2])

\* The nodes that are allocated, not freed, and reachable from no live queue.
Leaked(s) ==
    s.alive \ UNION {Reach(s.heap, s.root[q]) : q \in {p \in Handles : s.live[p]}}

Failed == last.outcome \in {"comp_throw", "bad_alloc"}

\* C14: after a failing push, pop, merge, copy-construction or
\* copy-assignment every node that is allocated and not freed is reachable
\* from the root of a live queue.
C14_NoLeakOnFailure ==
    (last.op \in {"push", "pop", "merge", "copyctor", "assign"} /\ Failed) =>
        Leaked(Cur) = {}

\* Every node that existed before the last call is still allocated and has
\* the fields it had.
OldNodesKept == \A n \in Pre.alive : n \in alive /\ heap[n] = Pre.heap[n]

\* C15: when an allocation fails while copy-assignment clones the source,
\* every queue's root and count and every node that existed before the call
\* are as they were; when the assignment succeeds the receiver holds a
\* complete copy made of nodes that did not exist before the call.
C15_AssignStrong ==
    last.op = "assign" =>
        /\ last.outcome = "bad_alloc" =>
              /\ root = Pre.root /\ cnt = Pre.cnt /\ live = Pre.live
              /\ OldNodesKept /\ last.frees = <<>>
        /\ last.outcome = "ok" =>
              /\ Reach(heap, root[last.q]) \cap Pre.alive = {}
              /\ SameTree(heap, root[last.q], root[last.o])
              /\ cnt[last.q] = Pre.cnt[last.o]
              /\ KeptQueue(last.o)

\* An assignment failed after clone had already allocated a node, on a
\* receiver that held elements.
C15_Witness ==
    /\ last.op = "assign" /\ last.outcome = "bad_alloc"
    /\ alive # Pre.alive
    /\ Pre.cnt[last.q] >= 1

\* In log every comparator invocation stands before every field write.
CompsBeforeWrites(log) ==
    \A i, j \in 1..Len(log) : (log[i] = "write" /\ log[j] = "comp") => j < i

\* C16: within the top-level meld of a push, pop or merge every comparator
\* invocation precedes the first write to a node field; when an invocation
\* throws, the meld has written no field and every node has the fields it
\* had before the call.
C16_CompareBeforeWrite ==
    last.op \in {"push", "pop", "merge"} =>
        /\ CompsBeforeWrites(last.log)
        /\ Len(SelectSeq(last.log, LAMBDA x : x = "comp")) = last.cmp
        /\ last.threw =>
              /\ \A i \in 1..Len(last.log) : last.log[i] = "comp"
              /\ \A n \in Pre.alive : heap[n] = Pre.heap[n]
        /\ (~last.threw /\ last.cmp >= 1) => Len(last.log) >= last.cmp + 2

\* The second comparator invocation of a pop's meld threw, one level down
\* the recursion.
C16_Witness ==
    /\ last.op = "pop" /\ last.threw /\ last.cmp = 2
    /\ last.log = <<"comp", "comp">>

LiveQueues == {q \in Handles : live[q]}

\* The links of the tree at x that point to n.
InEdges(h, x, n) ==
    {e \in Reach(h, x) \X {"left", "right"} :
        (IF e[2] = "left" THEN h[e[1]].left ELSE h[e[1]].right) = n}

\* Every node of the tree at x is reached from x by exactly one path.
OnePath(h, x) ==
    \A n \in Reach(h, x) : Cardinality(InEdges(h, x, n)) = IF n = x THEN 0 ELSE 1

\* No node is shared between two queues, has two parents or lies on a
\* cycle, and every reachable node is allocated.
NoSharing ==
    /\ \A q \in LiveQueues : OnePath(heap, root[q]) /\ Reach(heap, root[q]) \subseteq alive
    /\ \A p, q \in LiveQueues :
          p # q => Reach(heap, root[p]) \cap Reach(heap, root[q]) = {}

\* A successful merge moves all of other's nodes to the receiver; a failed
\* merge moves none.
MergeMoves ==
    (last.op = "merge" /\ last.q # last.o) =>
        /\ last.outcome = "ok" =>
              /\ Reach(heap, root[last.q]) =
                    Reach(Pre.heap, Pre.root[last.q]) \cup Reach(Pre.heap, Pre.root[last.o])
              /\ Reach(heap, root[last.o]) = {}
        /\ last.outcome = "comp_throw" =>
              \A p \in Handles : Reach(heap, root[p]) = Reach(Pre.heap, Pre.root[p])

\* Every allocated node belongs to a live queue.
EveryNodeOwned ==
    \A n \in alive : \E q \in LiveQueues : n \in Reach(heap, root[q])

\* C17: in every reachable state each live node is reachable from the root
\* of exactly one queue and by exactly one path; a successful merge moves
\* all of other's nodes to the receiver and a failed merge moves none.
C17_ExclusiveOwnership == EveryNodeOwned /\ NoSharing /\ MergeMoves

SeqSet(sq) == {sq[i] : i \in 1..Len(sq)}

NoDup(sq) == \A i, j \in 1..Len(sq) : sq[i] = sq[j] => i = j

\* C18: a call frees no node twice and only nodes that were allocated; a
\* freed node is reachable from no live queue.  A successful pop frees
\* exactly the old root, merge frees nothing, a successful copy-assignment
\* frees exactly the receiver's previous nodes, and a destructor frees
\* exactly the nodes reachable from the queue's root, each once.
C18_FreedOnce ==
    /\ NoDup(last.frees)
    /\ SeqSet(last.frees) \subseteq
          Pre.alive \cup (IF last.op = "push" THEN {PreNew} ELSE {})
    /\ SeqSet(last.frees) \cap alive = {}
    /\ \A q \in LiveQueues : Reach(heap, root[q]) \subseteq alive
    /\ (last.op = "pop" /\ last.outcome = "ok") => last.frees = <<Pre.root[last.q]>>
    /\ (last.op = "pop" /\ last.outcome # "ok") => last.frees = <<>>
    /\ last.op = "merge" => last.frees = <<>>
    /\ (last.op = "assign" /\ last.outcome = "ok") =>
          SeqSet(last.frees) = Reach(Pre.heap, Pre.root[last.q])
    /\ (last.op = "assign" /\ last.outcome # "ok") => last.frees = <<>>
    /\ last.op = "dtor" =>
          SeqSet(last.frees) = Reach(Pre.heap, Pre.root[last.q])

\* A pop removed a root that had two children; both are still allocated.
C18_Witness ==
    /\ last.op = "pop" /\ last.outcome = "ok"
    /\ Pre.heap[Pre.root[last.q]].left # NULL
    /\ Pre.heap[Pre.root[last.q]].right # NULL
    /\ last.frees = <<Pre.root[last.q]>>
    /\ {Pre.heap[Pre.root[last.q]].left, Pre.heap[Pre.root[last.q]].right}
          \subseteq Reach(heap, root[last.q])

\* The number of nodes on the path from x that follows only right children.
RECURSIVE RightSpine(_, _)
RightSpine(h, x) == IF x = NULL THEN 0 ELSE 1 + RightSpine(h, h[x].right)

\* C19: in every reachable state, with r the number of nodes on the right
\* spine of a queue's tree, r equals the rank of the root and
\* 2^r - 1 <= count.
C19_RightSpineLog ==
    \A q \in LiveQueues :
        LET r == RightSpine(heap, root[q])
        IN r = npl(heap, root[q]) /\ 2^r - 1 <= cnt[q]

\* A merge built a three-element queue whose right spine has two nodes, the
\* most three elements allow.
C19_Witness ==
    /\ last.op = "merge" /\ last.outcome = "ok" /\ last.cmp >= 1
    /\ cnt[last.q] = 3 /\ RightSpine(heap, root[last.q]) = 2

\* The nodes on the right spine of the tree at x.
RECURSIVE Spine(_, _)
Spine(h, x) == IF x = NULL THEN {} ELSE {x} \cup Spine(h, h[x].right)

\* The nodes of the melded trees whose fields the last call's meld changed.
MeldChanged ==
    {n \in Reach(MeldIn, last.a) \cup Reach(MeldIn, last.b) :
        n \in alive /\ heap[n] # MeldIn[n]}

\* C20: the meld of a push, pop or merge returns; it invokes no comparator
\* when either argument is absent; for two present valid leftist heaps it
\* invokes the comparator at least once and at most rank(a) + rank(b) - 1
\* times, and changes only nodes on the right spines of a and b.
C20_MeldBound ==
    last.op \in {"push", "pop", "merge"} /\ last.outcome \in {"ok", "comp_throw"} =>
        /\ (last.a = NULL \/ last.b = NULL) =>
              last.cmp = 0 /\ last.log = <<>> /\ MeldChanged = {}
        /\ (/\ last.a # NULL /\ last.b # NULL
            /\ ValidTree(MeldIn, last.a) /\ ValidTree(MeldIn, last.b)) =>
              /\ last.cmp >= 1
              /\ last.cmp <= npl(MeldIn, last.a) + npl(MeldIn, last.b) - 1
              /\ MeldChanged \subseteq Spine(MeldIn, last.a) \cup Spine(MeldIn, last.b)

\* A pop melded a subtree of rank 2 with one of rank 1 in two comparisons,
\* the bound, and left a node off the right spines untouched.
C20_Witness ==
    /\ last.op = "pop" /\ last.outcome = "ok"
    /\ last.a # NULL /\ last.b # NULL
    /\ npl(MeldIn, last.a) = 2 /\ npl(MeldIn, last.b) = 1
    /\ last.cmp = 2
    /\ Reach(MeldIn, last.a) \ Spine(MeldIn, last.a) # {}

====
